---- MODULE Spec2Model ----
(***************************************************************************)
(* Finora backend: the transaction store (backend/transaction/service.py)  *)
(* and the analytics layer on top of it (backend/analytics/service.py,     *)
(* backend/analytics/router.py, backend/core/model/*.py).                  *)
(*                                                                         *)
(* Representation.                                                         *)
(*   - Amounts are integers (minor units); sums are exact.  The binary     *)
(*     floating point rounding of Python's float sums is not modelled.     *)
(*   - A Python str that is formatted by the code (a period key) is the    *)
(*     sequence of its ASCII codes, so that formatting, length and the     *)
(*     lexicographic order used by sorted() are computed, not assumed.     *)
(*   - Optional[X] is a sequence of length at most one: None is << >>,     *)
(*     a present value x is <<x>>.                                         *)
(*   - A dict is the sequence of its (key, value) entries in insertion     *)
(*     order, which is the iteration order of a Python dict.               *)
(*   - A raised exception is a record [exc |-> <name>].                    *)
(*   - datetimes are naive and read as UTC.                                *)
(***************************************************************************)
EXTENDS Integers, Sequences, FiniteSets, TLC

VARIABLES
    db,            \* the "transactions" collection: documents in insertion order
    clock,         \* index into Instants: the current time dt.now(tz.utc)
    transactions,  \* the List[Transaction] handed to the _calculate_* functions
    call,          \* the last operation invoked and its arguments
    result,        \* what that operation returned (or the error it ended in)
    last,          \* the same call made before on the same slice, if any, with
                   \* what it returned and the slice it was given
    inflight,      \* the update and delete requests that have read their
                   \* document and not yet written
    clients,       \* CryptoPriceService.clients: websocket -> subscribed_symbols
    subscriptions, \* CryptoPriceService.subscriptions: symbol -> websockets
    handlers,      \* websocket_endpoint of each connection: where it stands
    broadcast,     \* price_update_loop: the broadcast in progress, if any
    unsubscribed   \* the <<websocket, symbol>> sent an "unsubscribed" and not subscribed since

\* the state of the websocket service
ws_vars == <<clients, subscriptions, handlers, broadcast, unsubscribed>>

vars == <<db, clock, transactions, call, result, last, inflight, ws_vars>>

----------------------------------------------------------------------------
(* Bounds of the model                                                     *)

MaxLen == 2        \* longest transaction slice drawn as input of a _calculate_*
MaxTx == 2         \* most documents that create_transaction inserts

----------------------------------------------------------------------------
(* Optional values, sequences                                              *)

None == << >>
Some(x) == <<x>>
IsNone(o) == Len(o) = 0
Val(o) == o[1]

Range(s) == {s[i] : i \in DOMAIN s}

RECURSIVE SumSeq(_)
\* sum(s) for a sequence of numbers
SumSeq(s) == IF s = << >> THEN 0 ELSE Head(s) + SumSeq(Tail(s))

\* [x for x in s if P(x)]
Filter(s, P(_)) == SelectSeq(s, P)

\* the keys of a dict filled by iterating over s: first occurrences, in order
Dedup(s) ==
    LET first == SelectSeq([i \in DOMAIN s |-> i],
                           LAMBDA i : \A j \in 1..(i - 1) : s[j] # s[i])
    IN  [k \in DOMAIN first |-> s[first[k]]]

\* [F(x) for x in s]
Map(s, F(_)) == [i \in DOMAIN s |-> F(s[i])]

----------------------------------------------------------------------------
(* Python str as a sequence of ASCII codes                                 *)

Char0 == 48
CharDash == 45
CharW == 87
CharT == 84
CharColon == 58

Digits2(n) == <<Char0 + ((n \div 10) % 10), Char0 + (n % 10)>>
Digits4(n) == <<Char0 + ((n \div 1000) % 10), Char0 + ((n \div 100) % 10)>>
              \o Digits2(n)

RECURSIVE StrLess(_, _)
\* a < b for two str: lexicographic by code point
StrLess(a, b) ==
    IF b = << >> THEN FALSE
    ELSE IF a = << >> THEN TRUE
    ELSE IF Head(a) # Head(b) THEN Head(a) < Head(b)
    ELSE StrLess(Tail(a), Tail(b))

----------------------------------------------------------------------------
(* datetime                                                                *)

DateTime(y, m, d, hh, mi, ss) ==
    [year |-> y, month |-> m, day |-> d, hour |-> hh, minute |-> mi, second |-> ss]

IsLeap(y) == (y % 4 = 0) /\ ((y % 100 # 0) \/ (y % 400 = 0))

DaysInMonth(y, m) ==
    IF m = 2 THEN (IF IsLeap(y) THEN 29 ELSE 28)
    ELSE IF m \in {4, 6, 9, 11} THEN 30 ELSE 31

DaysBeforeYear(y) ==
    (y - 1) * 365 + ((y - 1) \div 4) - ((y - 1) \div 100) + ((y - 1) \div 400)

RECURSIVE DaysBeforeMonth(_, _)
DaysBeforeMonth(y, m) ==
    IF m = 1 THEN 0 ELSE DaysBeforeMonth(y, m - 1) + DaysInMonth(y, m - 1)

\* date.toordinal(): 0001-01-01 is day 1
Ymd2Ord(y, m, d) == DaysBeforeYear(y) + DaysBeforeMonth(y, m) + d

EpochOrdinal == Ymd2Ord(1970, 1, 1)

\* int(d.timestamp())
Timestamp(d) ==
    (Ymd2Ord(d.year, d.month, d.day) - EpochOrdinal) * 86400
        + d.hour * 3600 + d.minute * 60 + d.second

\* d.replace(hour=23, minute=59, second=59)
EndOfDay(d) == [d EXCEPT !.hour = 23, !.minute = 59, !.second = 59]

\* d itself where d.date() is meant: the day with its time
DateAndTime(d) == <<d.year, d.month, d.day, d.hour, d.minute, d.second>>

\* d.date()
DateOf(d) == <<d.year, d.month, d.day>>

\* the rest of _isoweek1monday once firstday is known
Week1MondayFrom(firstday, firstweekday) ==
    IF firstweekday > 3 THEN firstday - firstweekday + 7 ELSE firstday - firstweekday

IsoWeek1Monday(y) ==
    Week1MondayFrom(Ymd2Ord(y, 1, 1), (Ymd2Ord(y, 1, 1) + 6) % 7)

\* the rest of isocalendar once the ordinal of the day and the first Mondays of
\* the ISO years year - 1, year and year + 1 are known
IsoCalendarFrom(year, today, w0, w1, w2) ==
    IF today < w1
    THEN <<year - 1, ((today - w0) \div 7) + 1, ((today - w0) % 7) + 1>>
    ELSE IF (today - w1) \div 7 >= 52 /\ today >= w2
    THEN <<year + 1, 1, ((today - w1) % 7) + 1>>
    ELSE <<year, ((today - w1) \div 7) + 1, ((today - w1) % 7) + 1>>

\* d.isocalendar(): <<ISO year, ISO week, ISO weekday>>
IsoCalendar(d) ==
    IsoCalendarFrom(d.year, Ymd2Ord(d.year, d.month, d.day),
                    IsoWeek1Monday(d.year - 1), IsoWeek1Monday(d.year),
                    IsoWeek1Monday(d.year + 1))

\* d.strftime('%Y-%m-%d'), d.strftime('%Y-%m'), d.strftime('%Y')
StrfYmd(d) == Digits4(d.year) \o <<CharDash>> \o Digits2(d.month)
              \o <<CharDash>> \o Digits2(d.day)
StrfYm(d) == Digits4(d.year) \o <<CharDash>> \o Digits2(d.month)
StrfY(d) == Digits4(d.year)

\* d.isoformat() of a datetime without microseconds or offset
IsoFormat(d) ==
    StrfYmd(d) \o <<CharT>> \o Digits2(d.hour) \o <<CharColon>>
        \o Digits2(d.minute) \o <<CharColon>> \o Digits2(d.second)

\* year, week, _ = iso; f"{year}-W{week:02d}"
WeekKey(iso) == Digits4(iso[1]) \o <<CharDash, CharW>> \o Digits2(iso[2])

----------------------------------------------------------------------------
(* Exceptions, dicts, sorting                                              *)

Ok(v) == [exc |-> "None", val |-> v]
Raise(e) == [exc |-> e, val |-> << >>]
Raised(r) == r.exc # "None"

\* {} : the dict without entries
EmptyDict == << >>

\* Stable ascending sort of s under the strict order Less, by insertion:
\* what sorted() and list.sort() return (both are stable).
SortBy(s, Less(_, _)) ==
    LET Insert(r, x) ==
            LET p == Cardinality({i \in DOMAIN r : ~Less(x, r[i])})
            IN  SubSeq(r, 1, p) \o <<x>> \o SubSeq(r, p + 1, Len(r))
        ins[k \in 0..Len(s)] == IF k = 0 THEN << >> ELSE Insert(ins[k - 1], s[k])
    IN  ins[Len(s)]

\* max(s, key=Key): the first element of s whose key is maximal
MaxBy(s, Key(_)) ==
    LET i == CHOOSE i \in DOMAIN s :
                 /\ \A j \in DOMAIN s : Key(s[j]) <= Key(s[i])
                 /\ \A j \in 1..(i - 1) : Key(s[j]) < Key(s[i])
    IN  s[i]

\* round(n / d, 0) for integers n >= 0, d > 0: to nearest, ties to even
RoundDiv(n, d) ==
    LET q == n \div d
        r == n % d
    IN  IF 2 * r < d THEN q
        ELSE IF 2 * r > d THEN q + 1
        ELSE IF q % 2 = 0 THEN q ELSE q + 1

----------------------------------------------------------------------------
(* backend/core/model: enums                                               *)

TransactionType == {"income", "expense"}

\* class AnalyticsPeriod(Enum): the members the enum defines
AnalyticsPeriod == {"weekly", "monthly", "yearly"}

----------------------------------------------------------------------------
(* backend/analytics/service.py: the aggregate computations                *)

\* AnalyticsPeriod.<name>: attribute access on the Enum class
EnumAttr(name) == IF name \in AnalyticsPeriod THEN Ok(name) ELSE Raise("AttributeError")

_get_period_key(date, period) ==
    IF Raised(EnumAttr("daily")) THEN EnumAttr("daily")
    ELSE IF period = "daily" THEN Ok(StrfYmd(date))
    ELSE IF Raised(EnumAttr("weekly")) THEN EnumAttr("weekly")
    ELSE IF period = "weekly" THEN Ok(WeekKey(IsoCalendar(date)))
    ELSE IF Raised(EnumAttr("monthly")) THEN EnumAttr("monthly")
    ELSE IF period = "monthly" THEN Ok(StrfYm(date))
    ELSE IF Raised(EnumAttr("yearly")) THEN EnumAttr("yearly")
    ELSE IF period = "yearly" THEN Ok(StrfY(date))
    ELSE Ok(StrfYmd(date))

Amount(t) == t.amount

\* IsIncome with the type compared to the member's name, not to the member
IsIncomeName(t) == t.type = "INCOME"

IsIncome(t) == t.type = "income"
IsExpense(t) == t.type = "expense"

FinancialSummary(ti, te, ni, avg, le, mfc) ==
    [total_income |-> ti, total_expense |-> te, net_income |-> ni,
     avg_daily_expense |-> avg, largest_expense |-> le,
     most_frequent_category |-> mfc]

\* max(s, key=Key) were it to keep the last element whose key is maximal
MaxByLast(s, Key(_)) ==
    LET i == CHOOSE i \in DOMAIN s :
                 /\ \A j \in DOMAIN s : Key(s[j]) <= Key(s[i])
                 /\ \A j \in (i + 1)..Len(s) : Key(s[j]) < Key(s[i])
    IN  s[i]

\* the dict built from the transaction max() picked
expense_snapshot(largest) ==
    [id |-> largest.id, amount |-> largest.amount,
     description |-> largest.description,
     category_id |-> largest.category_id,
     transaction_date |-> IsoFormat(largest.transaction_date)]

\* largest_expense with the last of the expenses of maximal amount
largest_expense_last(expense_transactions) ==
    IF expense_transactions # << >>
    THEN expense_snapshot(MaxByLast(expense_transactions, Amount))
    ELSE EmptyDict

\* largest_expense, from the expense transactions of the slice
largest_expense_of(expense_transactions) ==
    IF expense_transactions # << >>
    THEN expense_snapshot(MaxBy(expense_transactions, Amount))
    ELSE EmptyDict

\* category_counts.items(): (category id, count) in the order the ids were
\* first met
category_counts_of(txs) ==
    Map(Dedup(Map(txs, LAMBDA t : t.category_id)),
        LAMBDA c : <<c, Len(Filter(txs, LAMBDA t : t.category_id = c))>>)

\* most_frequent_category counted over the expense transactions only
most_frequent_category_expense(txs) ==
    LET category_counts == category_counts_of(Filter(txs, IsExpense))
        most_freq_cat == MaxBy(category_counts, LAMBDA e : e[2])
    IN  IF category_counts # << >>
        THEN [category_id |-> most_freq_cat[1], count |-> most_freq_cat[2]]
        ELSE EmptyDict

\* most_frequent_category, from the transactions of the slice
most_frequent_category_of(txs) ==
    LET category_counts == category_counts_of(txs)
        most_freq_cat == MaxBy(category_counts, LAMBDA e : e[2])
    IN  IF category_counts # << >>
        THEN [category_id |-> most_freq_cat[1], count |-> most_freq_cat[2]]
        ELSE EmptyDict

_calculate_financial_summary(txs) ==
    IF txs = << >>
    THEN Ok(FinancialSummary(0, 0, 0, 0, EmptyDict, EmptyDict))
    ELSE
    LET total_income == SumSeq(Map(Filter(txs, IsIncome), Amount))
        total_expense == SumSeq(Map(Filter(txs, IsExpense), Amount))
        net_income == total_income - total_expense
        expense_transactions == Filter(txs, IsExpense)
        dates == {DateOf(t.transaction_date) : t \in Range(expense_transactions)}
        avg_daily_expense ==
            IF expense_transactions # << >>
            THEN (IF dates # {} THEN RoundDiv(total_expense, Cardinality(dates)) ELSE 0)
            ELSE 0
    IN  Ok(FinancialSummary(total_income, total_expense, net_income,
                            avg_daily_expense,
                            largest_expense_of(expense_transactions),
                            most_frequent_category_of(txs)))

\* subcategory_transactions with the list assigned, not appended to: the last
\* transaction of the subcategory only
subcategory_last(data, subcat_id) ==
    LET st == Filter(data, LAMBDA t : t.subcategory_id = subcat_id)
    IN  IF st = << >> THEN << >> ELSE <<st[Len(st)]>>

\* data['subcategories'][subcat_id]: the transactions of the category appended
\* under the subcategory id
subcategory_transactions(data, subcat_id) ==
    Filter(data, LAMBDA t : t.subcategory_id = subcat_id)

\* one entry of the subcategories list
subcategory_entry(st, category_total, subcat_id) ==
    [subcategory_id |-> subcat_id,
     total_amount |-> SumSeq(Map(st, Amount)),
     transaction_count |-> Len(st),
     percentage |-> IF category_total > 0
                    THEN RoundDiv(SumSeq(Map(st, Amount)) * 10000, category_total)
                    ELSE 0]

\* one CategoryAnalytics: data are the transactions of the category
category_entry(data, total_amount, category_id) ==
    [category_id |-> category_id,
     total_amount |-> SumSeq(Map(data, Amount)),
     transaction_count |-> Len(data),
     percentage |-> IF total_amount > 0
                    THEN RoundDiv(SumSeq(Map(data, Amount)) * 10000, total_amount)
                    ELSE 0,
     subcategories |->
         SortBy(Map(Dedup(Map(data, LAMBDA t : t.subcategory_id)),
                    LAMBDA sc : subcategory_entry(subcategory_transactions(data, sc),
                                                  SumSeq(Map(data, Amount)), sc)),
                LAMBDA a, b : a.total_amount > b.total_amount)]

\* s[::-1]
Reverse(s) == [i \in DOMAIN s |-> s[Len(s) + 1 - i]]

\* _calculate_category_breakdown with the result sorted ascending and then
\* reversed
_calculate_category_breakdown_reversed(txs) ==
    Ok(Reverse(SortBy(Map(Dedup(Map(txs, LAMBDA t : t.category_id)),
                          LAMBDA c : category_entry(Filter(txs, LAMBDA t : t.category_id = c),
                                                    SumSeq(Map(txs, Amount)), c)),
                      LAMBDA a, b : a.total_amount < b.total_amount)))

\* _calculate_category_breakdown with total_amount summed over the expenses
\* only
_calculate_category_breakdown_expenses(txs) ==
    Ok(SortBy(Map(Dedup(Map(txs, LAMBDA t : t.category_id)),
                  LAMBDA c : category_entry(Filter(txs, LAMBDA t : t.category_id = c),
                                            SumSeq(Map(Filter(txs, IsExpense), Amount)),
                                            c)),
              LAMBDA a, b : a.total_amount > b.total_amount))

_calculate_category_breakdown(txs) ==
    Ok(SortBy(Map(Dedup(Map(txs, LAMBDA t : t.category_id)),
                  LAMBDA c : category_entry(Filter(txs, LAMBDA t : t.category_id = c),
                                            SumSeq(Map(txs, Amount)), c)),
              LAMBDA a, b : a.total_amount > b.total_amount))

\* the exception of the first element of rs that raised, else the values
FirstRaised(rs) ==
    LET bad == {i \in DOMAIN rs : Raised(rs[i])}
    IN  IF bad = {} THEN Ok(Map(rs, LAMBDA r : r.val))
        ELSE rs[CHOOSE i \in bad : \A j \in bad : i <= j]

\* period_keys with the enum member looked up once, before the loop
period_keys_hoisted(txs, query) ==
    IF Raised(EnumAttr("daily")) THEN EnumAttr("daily")
    ELSE FirstRaised(Map(txs, LAMBDA t : _get_period_key(t.transaction_date,
                                                         query.period)))

\* the period keys of the transactions, in order: the calls of _get_period_key
\* that the loop over the transactions makes
period_keys(txs, query) ==
    FirstRaised(Map(txs, LAMBDA t : _get_period_key(t.transaction_date, query.period)))

\* the transactions of txs whose period key is k
InPeriod(txs, key, k) ==
    LET idx == {i \in DOMAIN txs : key[i] = k}
    IN  Map(Filter([i \in DOMAIN txs |-> <<i, txs[i]>>], LAMBDA p : p[1] \in idx),
            LAMBDA p : p[2])

\* period_data of _calculate_spending_trends, sorted, unless a period key raised
spending_trends_of(txs, keyed) ==
    LET Bucket(k) ==
            [date |-> k,
             amount |-> SumSeq(Map(InPeriod(txs, keyed.val, k), Amount)),
             transaction_count |-> Len(InPeriod(txs, keyed.val, k))]
    IN  IF Raised(keyed) THEN keyed
        ELSE Ok(SortBy(Map(Dedup(keyed.val), Bucket),
                       LAMBDA a, b : StrLess(a.date, b.date)))

_calculate_spending_trends(txs, query) ==
    IF txs = << >> THEN Ok(<< >>)
    ELSE spending_trends_of(txs, period_keys(txs, query))

\* period_data of _calculate_period_comparison, sorted, unless a period key
\* raised
period_comparison_of(txs, keyed) ==
    LET Bucket(k) ==
            LET income == SumSeq(Map(Filter(InPeriod(txs, keyed.val, k), IsIncome),
                                     Amount))
                expense == SumSeq(Map(Filter(InPeriod(txs, keyed.val, k),
                                             LAMBDA t : ~IsIncome(t)), Amount))
            IN  [period |-> k, income |-> income, expense |-> expense,
                 net |-> income - expense,
                 transaction_count |-> Len(InPeriod(txs, keyed.val, k))]
    IN  IF Raised(keyed) THEN keyed
        ELSE Ok(SortBy(Map(Dedup(keyed.val), Bucket),
                       LAMBDA a, b : StrLess(a.period, b.period)))

_calculate_period_comparison(txs, query) ==
    period_comparison_of(txs, period_keys(txs, query))

RECURSIVE TagOccurrencesOnce(_)
\* TagOccurrences with a tag counted once per transaction
TagOccurrencesOnce(txs) ==
    IF txs = << >> THEN << >>
    ELSE LET t == Head(txs)
             own == IF IsNone(t.tags) THEN << >>
                    ELSE Map(Dedup(Val(t.tags)), LAMBDA g : <<g, t.amount>>)
         IN  own \o TagOccurrencesOnce(Tail(txs))

\* the (tag, amount) occurrences, in the order the two loops visit them
RECURSIVE TagOccurrences(_)
TagOccurrences(txs) ==
    IF txs = << >> THEN << >>
    ELSE LET t == Head(txs)
             own == IF IsNone(t.tags) THEN << >>
                    ELSE Map(Val(t.tags), LAMBDA g : <<g, t.amount>>)
         IN  own \o TagOccurrences(Tail(txs))

TopTags == 20

\* result after the sort: one TagAnalytics per key of tag_data, by total_amount
\* descending
tag_entries(occ) ==
    LET tags == Dedup(Map(occ, LAMBDA o : o[1]))
        Entry(tag) ==
            LET mine == Filter(occ, LAMBDA o : o[1] = tag)
                total == SumSeq(Map(mine, LAMBDA o : o[2]))
            IN  [tag |-> tag, total_amount |-> total,
                 transaction_count |-> Len(mine),
                 avg_amount |-> IF Len(mine) > 0 THEN RoundDiv(total, Len(mine)) ELSE 0]
    IN  SortBy(Map(tags, Entry), LAMBDA a, b : a.total_amount > b.total_amount)

\* result[:20]
first_tags(sorted) ==
    SubSeq(sorted, 1, IF Len(sorted) < TopTags THEN Len(sorted) ELSE TopTags)

\* _calculate_tag_analytics without the slice [:20]
_calculate_tag_analytics_all(txs) == Ok(tag_entries(TagOccurrences(txs)))

\* _calculate_tag_analytics with tag_data kept on the service between calls:
\* a second call adds to the totals of the first
_calculate_tag_analytics_kept(txs) ==
    Ok(first_tags(tag_entries(TagOccurrences(
           IF call.op = "_calculate_tag_analytics" THEN transactions \o txs
           ELSE txs))))

_calculate_tag_analytics(txs) == Ok(first_tags(tag_entries(TagOccurrences(txs))))

AnalyticsOverview(s, cb, st, tt, pc) ==
    [summary |-> s, category_breakdown |-> cb, spending_trends |-> st,
     top_tags |-> tt, period_comparison |-> pc]

_empty_analytics_overview ==
    AnalyticsOverview(FinancialSummary(0, 0, 0, 0, EmptyDict, EmptyDict),
                      << >>, << >>, << >>, << >>)

----------------------------------------------------------------------------
(* backend/core/model/transaction.py, backend/transaction/service.py       *)

\* the taxonomy that init_category loads: category id -> its subcategory ids
\* (the part of it the model uses)
cat_map ==
    [food_dining |-> {"lunch", "dinner"}, income |-> {"income_other"}]

CategoryId == DOMAIN cat_map
SubCategoryId == UNION {cat_map[c] : c \in CategoryId}

\* Transaction(**doc): the field validators; a document that fails is not a
\* Transaction (the constructor raises)
Valid(doc) ==
    /\ doc.type \in TransactionType
    /\ doc.amount > 0
    /\ doc.category_id \in CategoryId
    /\ doc.subcategory_id \in SubCategoryId

Transaction(id, user_id, type, amount, transaction_date, category_id, subcategory_id, description, tags, created_at, updated_at, is_deleted) ==
    [id |-> id, user_id |-> user_id, type |-> type, amount |-> amount,
     transaction_date |-> transaction_date, category_id |-> category_id,
     subcategory_id |-> subcategory_id, description |-> description,
     tags |-> tags, created_at |-> created_at, updated_at |-> updated_at,
     is_deleted |-> is_deleted]

----------------------------------------------------------------------------
(* backend/core/model/analytics.py, backend/analytics/service.py: queries  *)

AnalyticsQuery(start_date, end_date, period, transaction_type, category_id) ==
    [start_date |-> start_date, end_date |-> end_date, period |-> period,
     transaction_type |-> transaction_type, category_id |-> category_id]

\* filter_conditions without "is_deleted": False
filter_conditions_deleted(doc, query, user) ==
    /\ doc.user_id = user
    /\ IsNone(query.start_date)
           \/ doc.created_at >= Timestamp(Val(query.start_date))
    /\ IsNone(query.end_date)
           \/ doc.created_at <= Timestamp(EndOfDay(Val(query.end_date)))
    /\ IsNone(query.transaction_type) \/ doc.type = Val(query.transaction_type)
    /\ IsNone(query.category_id) \/ doc.category_id = Val(query.category_id)

\* the filter_conditions that _get_filtered_transactions builds, applied to doc
filter_conditions(doc, query, user) ==
    /\ doc.user_id = user
    /\ doc.is_deleted = FALSE
    /\ IsNone(query.start_date)
           \/ doc.created_at >= Timestamp(Val(query.start_date))
    /\ IsNone(query.end_date)
           \/ doc.created_at <= Timestamp(EndOfDay(Val(query.end_date)))
    /\ IsNone(query.transaction_type) \/ doc.type = Val(query.transaction_type)
    /\ IsNone(query.category_id) \/ doc.category_id = Val(query.category_id)

_get_filtered_transactions(docs, query, user) ==
    LET documents == Filter(docs, LAMBDA d : filter_conditions(d, query, user))
    IN  Filter(documents, Valid)

\* the try block of get_analytics_overview once the five parts are computed
overview_of(summary, category_breakdown, spending_trends, top_tags, period_comparison) ==
    IF \/ Raised(summary) \/ Raised(category_breakdown) \/ Raised(spending_trends)
       \/ Raised(top_tags) \/ Raised(period_comparison)
    THEN Raise("HTTPException 500")
    ELSE Ok(AnalyticsOverview(summary.val, category_breakdown.val,
                              spending_trends.val, top_tags.val,
                              period_comparison.val))

\* the body of get_analytics_overview on the filtered transactions
get_analytics_overview(txs, query) ==
    IF txs = << >> THEN Ok(_empty_analytics_overview)
    ELSE overview_of(_calculate_financial_summary(txs),
                     _calculate_category_breakdown(txs),
                     _calculate_spending_trends(txs, query),
                     _calculate_tag_analytics(txs),
                     _calculate_period_comparison(txs, query))

----------------------------------------------------------------------------
(* Inputs of the model                                                     *)

Users == {"u1", "u2"}

\* the times at which requests arrive (dt.now), in order
Instants == <<DateTime(2024, 12, 20, 12, 0, 0), DateTime(2025, 3, 1, 9, 0, 0)>>

now == Timestamp(Instants[clock])

\* transaction dates of the requests sent to the service
TxDates == {DateTime(2024, 12, 31, 23, 59, 59)}

\* date ranges of the analytics queries: <<start_date, end_date>>
DateRanges ==
    {<<None, None>>,
     <<Some(DateTime(2024, 12, 1, 0, 0, 0)), Some(DateTime(2024, 12, 31, 0, 0, 0))>>,
     <<Some(DateTime(2025, 1, 1, 0, 0, 0)), Some(DateTime(2025, 12, 31, 23, 59, 59))>>}

CreateTransactionRequest(type, amount, transaction_date, category_id, subcategory_id, description, tags) ==
    [type |-> type, amount |-> amount, transaction_date |-> transaction_date,
     category_id |-> category_id, subcategory_id |-> subcategory_id,
     description |-> description, tags |-> tags]

CreateRequests ==
    {CreateTransactionRequest(ty, 100, d, "food_dining", sc, None, None) :
        ty \in TransactionType, d \in TxDates, sc \in {"lunch", "income_other"}}

\* UpdateTransactionRequest(): every field defaults to None
UpdateTransactionRequest ==
    [type |-> None, amount |-> None, transaction_date |-> None,
     category_id |-> None, subcategory_id |-> None, description |-> None,
     tags |-> None]

UpdateRequests ==
    {[UpdateTransactionRequest EXCEPT !.type = Some("income")]}

----------------------------------------------------------------------------
(* HTTP responses                                                          *)

Response(status_code, data) == [status_code |-> status_code, data |-> data]

\* what FastAPI answers for the outcome r of a route's service call
ResponseOf(r) ==
    IF ~Raised(r) THEN Response(200, r.val)
    ELSE IF r.exc = "HTTPException 404" THEN Response(404, << >>)
    ELSE Response(500, << >>)

Call(op, user, args) == [op |-> op, user |-> user, args |-> args]

----------------------------------------------------------------------------
(* backend/transaction: create, update, delete                             *)

\* find_one with the filter {"id": id} only
find_one_any_user(docs, id, user) ==
    LET hits == {i \in DOMAIN docs : docs[i].id = id}
    IN  IF hits = {} THEN 0 ELSE CHOOSE i \in hits : \A j \in hits : i <= j

\* find_one(transaction_collection, {"id": id, "user_id": user}): its position
\* in the collection, 0 when there is none
find_one(docs, id, user) ==
    LET hits == {i \in DOMAIN docs : docs[i].id = id /\ docs[i].user_id = user}
    IN  IF hits = {} THEN 0 ELSE CHOOSE i \in hits : \A j \in hits : i <= j

\* Transaction.update(request)
\* an update that stamps the record and applies nothing of the request
update_touch(t, request, ts) == [t EXCEPT !.created_at = ts, !.updated_at = ts]

update(t, request, ts) ==
    LET Set(old, new) == IF IsNone(new) THEN old ELSE Val(new)
    IN  [t EXCEPT !.type = Set(@, request.type),
                  !.amount = Set(@, request.amount),
                  !.transaction_date = Set(@, request.transaction_date),
                  !.category_id = Set(@, request.category_id),
                  !.subcategory_id = Set(@, request.subcategory_id),
                  !.description = Set(@, request.description),
                  !.tags = Set(@, request.tags),
                  !.updated_at = ts]

create_transaction(docs, request, user, ts) ==
    LET t == Transaction(Len(docs) + 1, user, request.type, request.amount,
                         request.transaction_date, request.category_id,
                         request.subcategory_id, request.description,
                         request.tags, ts, ts, FALSE)
    IN  IF request.category_id \notin DOMAIN cat_map
        THEN Raise("HTTPException 404")
        ELSE IF request.subcategory_id \notin cat_map[request.category_id]
        THEN Raise("HTTPException 404")
        ELSE IF ~Valid(t) THEN Raise("ValidationError")
        ELSE Ok(t)

update_transaction(docs, id, request, user, ts) ==
    LET i == find_one(docs, id, user)
    IN  IF i = 0 THEN Raise("HTTPException 404")
        ELSE IF ~Valid(docs[i]) THEN Raise("ValidationError")
        ELSE Ok(update(docs[i], request, ts))

delete_transaction(docs, id, user) ==
    LET i == find_one(docs, id, user)
    IN  IF i = 0 THEN Raise("HTTPException 404")
        ELSE Ok([docs[i] EXCEPT !.is_deleted = TRUE])

CreateTransaction(u, request) ==
    /\ Len(db) < MaxTx
    /\ LET r == create_transaction(db, request, u, now)
       IN  /\ db' = IF Raised(r) THEN db ELSE Append(db, r.val)
           /\ result' = ResponseOf(r)
    /\ call' = Call("create_transaction", u, request)
    /\ transactions' = << >>
    /\ UNCHANGED <<clock, last, inflight, ws_vars>>

UpdateTransaction(u, id, request) ==
    /\ LET r == update_transaction(db, id, request, u, now)
       IN  /\ db' = IF Raised(r) THEN db
                    ELSE [db EXCEPT ![find_one(db, id, u)] = r.val]
           /\ result' = ResponseOf(r)
    /\ call' = Call("update_transaction", u, [id |-> id, request |-> request])
    /\ transactions' = << >>
    /\ UNCHANGED <<clock, last, inflight, ws_vars>>

DeleteTransaction(u, id) ==
    /\ LET r == delete_transaction(db, id, u)
       IN  /\ db' = IF Raised(r) THEN db
                    ELSE [db EXCEPT ![find_one(db, id, u)] = r.val]
           /\ result' = ResponseOf(IF Raised(r) THEN r ELSE Ok(<< >>))
    /\ call' = Call("delete_transaction", u, [id |-> id])
    /\ transactions' = << >>
    /\ UNCHANGED <<clock, last, inflight, ws_vars>>

\* time passes between two requests
Tick ==
    /\ clock < Len(Instants)
    /\ clock' = clock + 1
    /\ UNCHANGED <<db, transactions, call, result, last, inflight, ws_vars>>

----------------------------------------------------------------------------
(* backend/analytics/router.py: the five routes                            *)

\* FastAPI's validation of the period query parameter against AnalyticsPeriod
ValidPeriod(period) == period \in AnalyticsPeriod

\* AnalyticsQuery.period when the route passes none
DefaultPeriod == "monthly"

\* the transactions a route's service call aggregates: none when the request
\* is rejected
route_transactions(docs, u, query) ==
    IF ~ValidPeriod(query.period) THEN << >>
    ELSE _get_filtered_transactions(docs, query, u)

\* the response of a route whose service call returns or raises r
route_response(query, r) ==
    IF ~ValidPeriod(query.period) THEN Response(422, << >>) ELSE ResponseOf(r)

GetAnalyticsOverview(u, range, period, transaction_type) ==
    LET query == AnalyticsQuery(range[1], range[2], period, transaction_type, None)
        txs == route_transactions(db, u, query)
        r == route_response(query, get_analytics_overview(txs, query))
    IN  /\ call' = Call("get_analytics_overview", u, query)
        /\ transactions' = txs
        /\ result' = r
        /\ UNCHANGED <<db, clock, last, inflight, ws_vars>>

GetCategoryBreakdown(u, range, transaction_type) ==
    LET query == AnalyticsQuery(range[1], range[2], DefaultPeriod, transaction_type, None)
        txs == route_transactions(db, u, query)
        r == route_response(query, _calculate_category_breakdown(txs))
    IN  /\ call' = Call("get_category_breakdown", u, query)
        /\ transactions' = txs
        /\ result' = r
        /\ UNCHANGED <<db, clock, last, inflight, ws_vars>>

GetSpendingTrends(u, range, period, category_id) ==
    LET query == AnalyticsQuery(range[1], range[2], period, None, category_id)
        txs == route_transactions(db, u, query)
        r == route_response(query, _calculate_spending_trends(txs, query))
    IN  /\ call' = Call("get_spending_trends", u, query)
        /\ transactions' = txs
        /\ result' = r
        /\ UNCHANGED <<db, clock, last, inflight, ws_vars>>

GetFinancialSummary(u, range) ==
    LET query == AnalyticsQuery(range[1], range[2], DefaultPeriod, None, None)
        txs == route_transactions(db, u, query)
        r == route_response(query, _calculate_financial_summary(txs))
    IN  /\ call' = Call("get_financial_summary", u, query)
        /\ transactions' = txs
        /\ result' = r
        /\ UNCHANGED <<db, clock, last, inflight, ws_vars>>

GetTagAnalytics(u, range) ==
    LET query == AnalyticsQuery(range[1], range[2], DefaultPeriod, None, None)
        txs == route_transactions(db, u, query)
        r == route_response(query, _calculate_tag_analytics(txs))
    IN  /\ call' = Call("get_tag_analytics", u, query)
        /\ transactions' = txs
        /\ result' = r
        /\ UNCHANGED <<db, clock, last, inflight, ws_vars>>

AnalyticsOps ==
    {"get_analytics_overview", "get_category_breakdown", "get_spending_trends",
     "get_financial_summary", "get_tag_analytics"}

----------------------------------------------------------------------------
(* backend/websocket/crypto_service.py: CryptoPriceService                 *)

MaxSockets == 2    \* number of websocket connections

\* the connections, each a WebSocket object of its own
WebSockets == 1..MaxSockets

\* self.symbols (two of the ten)
symbols == {"BTCUSDT", "ETHUSDT"}

\* the symbols a client may name: the supported ones and one that is not
NamedSymbols == symbols \cup {"FOOUSDT"}

\* a message on a websocket, either way: its "type" and, where it has one, its
\* "symbol"
Message(type, symbol) == [type |-> type, symbol |-> symbol]

\* what a client may send: json with a "type"
ClientMessages ==
    {Message("subscribe", s) : s \in NamedSymbols}
        \cup {Message("unsubscribe", s) : s \in symbols}
        \cup {Message("get_all_prices", "")}

\* where a websocket_endpoint stands, and the message it is sending if any
Handler(pc, message) == [pc |-> pc, message |-> message]

\* price_update_loop between two broadcasts
Sleep == [pc |-> "sleep", symbol |-> "", subscribers |-> {}, dead |-> {},
          to |-> 0, ok |-> TRUE]

\* CryptoPriceService() at start-up, no connection yet
InitCrypto ==
    /\ clients = << >>
    /\ subscriptions = [s \in symbols |-> {}]
    /\ handlers = [w \in WebSockets |-> Handler("new", << >>)]
    /\ broadcast = Sleep
    /\ unsubscribed = {}

\* self.clients after remove_client(websocket)
remove_client_clients(cl, websocket) ==
    [w \in DOMAIN cl \ {websocket} |-> cl[w]]

\* self.subscriptions after remove_client(websocket): the websocket is
\* discarded from the symbols of its subscribed_symbols, if it is a client
remove_client_subscriptions(cl, subs, websocket) ==
    IF websocket \in DOMAIN cl
    THEN [s \in DOMAIN subs |->
             IF s \in cl[websocket] THEN subs[s] \ {websocket} ELSE subs[s]]
    ELSE subs

\* self.clients after the synchronous part of subscribe_symbol
subscribe_clients(cl, websocket, symbol) ==
    IF websocket \in DOMAIN cl
    THEN [cl EXCEPT ![websocket] = @ \cup {symbol}]
    ELSE cl

\* self.clients after the synchronous part of unsubscribe_symbol
unsubscribe_clients(cl, websocket, symbol) ==
    IF websocket \in DOMAIN cl
    THEN [cl EXCEPT ![websocket] = @ \ {symbol}]
    ELSE cl

\* the confirmations of an unsubscription that were sent and not followed by a
\* subscribe, once message has been sent to websocket
Sent(confirmed, websocket, message) ==
    IF message.type = "unsubscribed"
    THEN confirmed \cup {<<websocket, message.symbol>>}
    ELSE confirmed

\* websocket_endpoint up to the await of the welcome message: add_client
\* accepts and registers the client
Connect(websocket) ==
    /\ handlers[websocket].pc = "new"
    /\ clients' = [w \in DOMAIN clients \cup {websocket} |->
                      IF w = websocket THEN {} ELSE clients[w]]
    /\ handlers' = [handlers EXCEPT ![websocket] =
                        Handler("send", Message("welcome", ""))]
    /\ UNCHANGED <<subscriptions, broadcast, unsubscribed>>
    /\ UNCHANGED <<db, clock, transactions, call, result, last, inflight>>

\* send_message of a handler returns: the text was sent, or the send raised and
\* the client is removed; either way the endpoint goes on to receive_text
SendMessage(websocket, ok) ==
    /\ handlers[websocket].pc = "send"
    /\ IF ok
       THEN /\ unsubscribed' = Sent(unsubscribed, websocket, handlers[websocket].message)
            /\ UNCHANGED <<clients, subscriptions>>
       ELSE /\ clients' = remove_client_clients(clients, websocket)
            /\ subscriptions' =
                   remove_client_subscriptions(clients, subscriptions, websocket)
            /\ UNCHANGED unsubscribed
    /\ handlers' = [handlers EXCEPT ![websocket] = Handler("receive", << >>)]
    /\ UNCHANGED broadcast
    /\ UNCHANGED <<db, clock, transactions, call, result, last, inflight>>

\* receive_text returns a subscribe message: subscribe_symbol up to its await
Subscribe(websocket, symbol) ==
    /\ handlers[websocket].pc = "receive"
    /\ IF symbol \notin symbols
       THEN /\ handlers' = [handlers EXCEPT ![websocket] =
                               Handler("send", Message("error", ""))]
            /\ UNCHANGED <<clients, subscriptions, unsubscribed>>
       ELSE /\ subscriptions' =
                   [subscriptions EXCEPT ![symbol] = @ \cup {websocket}]
            /\ clients' = subscribe_clients(clients, websocket, symbol)
            /\ handlers' = [handlers EXCEPT ![websocket] =
                               Handler("send", Message("subscribed", symbol))]
            /\ unsubscribed' = unsubscribed \ {<<websocket, symbol>>}
    /\ UNCHANGED broadcast
    /\ UNCHANGED <<db, clock, transactions, call, result, last, inflight>>

\* receive_text returns an unsubscribe message: unsubscribe_symbol up to its
\* await
Unsubscribe(websocket, symbol) ==
    /\ handlers[websocket].pc = "receive"
    /\ subscriptions' = [subscriptions EXCEPT ![symbol] = @ \ {websocket}]
    /\ clients' = unsubscribe_clients(clients, websocket, symbol)
    /\ handlers' = [handlers EXCEPT ![websocket] =
                        Handler("send", Message("unsubscribed", symbol))]
    /\ UNCHANGED <<broadcast, unsubscribed>>
    /\ UNCHANGED <<db, clock, transactions, call, result, last, inflight>>

\* receive_text returns a get_all_prices message
GetAllPrices(websocket) ==
    /\ handlers[websocket].pc = "receive"
    /\ handlers' = [handlers EXCEPT ![websocket] =
                        Handler("send", Message("all_prices_response", ""))]
    /\ UNCHANGED <<clients, subscriptions, broadcast, unsubscribed>>
    /\ UNCHANGED <<db, clock, transactions, call, result, last, inflight>>

\* the dispatch of websocket_endpoint on message_type
ReceiveText(websocket, message) ==
    CASE message.type = "subscribe" -> Subscribe(websocket, message.symbol)
      [] message.type = "unsubscribe" -> Unsubscribe(websocket, message.symbol)
      [] OTHER -> GetAllPrices(websocket)

\* receive_text raises WebSocketDisconnect: the endpoint removes the client and
\* returns
Disconnect(websocket) ==
    /\ handlers[websocket].pc = "receive"
    /\ clients' = remove_client_clients(clients, websocket)
    /\ subscriptions' = remove_client_subscriptions(clients, subscriptions, websocket)
    /\ handlers' = [handlers EXCEPT ![websocket] = Handler("done", << >>)]
    /\ UNCHANGED <<broadcast, unsubscribed>>
    /\ UNCHANGED <<db, clock, transactions, call, result, last, inflight>>

\* broadcast_price_update at the await of send_message(websocket, message),
\* one turn of its loop over the copied subscribers, taken in any order; ok
\* tells whether the text goes out or the send raises
Sending(symbol, subscribers, dead, websocket, ok) ==
    [pc |-> "sending", symbol |-> symbol, subscribers |-> subscribers \ {websocket},
     dead |-> dead, to |-> websocket, ok |-> ok]

\* price_update_loop takes a symbol and calls broadcast_price_update, which
\* returns at once without subscribers and else copies them and starts to send
BroadcastPriceUpdate(symbol) ==
    /\ broadcast.pc = "sleep"
    /\ IF subscriptions[symbol] = {}
       THEN broadcast' = broadcast
       ELSE \E websocket \in subscriptions[symbol], ok \in BOOLEAN :
                broadcast' = Sending(symbol, subscriptions[symbol], {}, websocket, ok)
    /\ UNCHANGED <<clients, subscriptions, handlers, unsubscribed>>
    /\ UNCHANGED <<db, clock, transactions, call, result, last, inflight>>

\* self.subscriptions once the loop over the copy is over: the dead connections
\* are discarded from the symbol
discard_dead(subs, symbol, dead) == [subs EXCEPT ![symbol] = @ \ dead]

\* send_message of the broadcast returns, True or after remove_client False;
\* the loop goes on to the next subscriber of the copy, or ends and the dead
\* connections are cleaned
BroadcastSend ==
    /\ broadcast.pc = "sending"
    /\ LET websocket == broadcast.to
           dead == IF broadcast.ok THEN broadcast.dead
                   ELSE broadcast.dead \cup {websocket}
           subs == IF broadcast.ok THEN subscriptions
                   ELSE remove_client_subscriptions(clients, subscriptions, websocket)
       IN  /\ clients' = IF broadcast.ok THEN clients
                         ELSE remove_client_clients(clients, websocket)
           /\ IF broadcast.subscribers = {}
              THEN /\ subscriptions' = discard_dead(subs, broadcast.symbol, dead)
                   /\ broadcast' = Sleep
              ELSE /\ subscriptions' = subs
                   /\ \E next \in broadcast.subscribers, ok \in BOOLEAN :
                          broadcast' = Sending(broadcast.symbol, broadcast.subscribers,
                                               dead, next, ok)
    /\ UNCHANGED <<handlers, unsubscribed>>
    /\ UNCHANGED <<db, clock, transactions, call, result, last, inflight>>

----------------------------------------------------------------------------
(* The service: requests of any user, in any order                         *)

NoCall == Call("none", "", << >>)

Init ==
    /\ db = << >>
    /\ clock = 1
    /\ transactions = << >>
    /\ call = NoCall
    /\ result = << >>
    /\ last = None
    /\ inflight = {}
    /\ InitCrypto

\* the requests that change the store
Requests ==
    \/ \E u \in Users, request \in CreateRequests : CreateTransaction(u, request)
    \/ \E u \in Users, id \in 1..MaxTx, request \in UpdateRequests :
           UpdateTransaction(u, id, request)
    \/ \E u \in Users, id \in 1..MaxTx : DeleteTransaction(u, id)

\* the analytics requests
Analytics ==
    \/ \E u \in Users, range \in DateRanges, period \in {"daily", "monthly"} :
           GetAnalyticsOverview(u, range, period, None)
    \/ \E u \in Users, range \in DateRanges, ty \in {None, Some("expense")} :
           GetCategoryBreakdown(u, range, ty)
    \/ \E u \in Users, range \in DateRanges, period \in {"daily", "weekly"} :
           GetSpendingTrends(u, range, period, None)
    \/ \E u \in Users, range \in DateRanges : GetFinancialSummary(u, range)
    \/ \E u \in Users, range \in DateRanges : GetTagAnalytics(u, range)

Next == Requests \/ Tick \/ Analytics

Spec == Init /\ [][Next]_vars

\* The same service while the clock stands still: every request arrives at
\* Instants[1].
NextStore == Requests \/ Analytics

SpecStore == Init /\ [][NextStore]_vars

----------------------------------------------------------------------------
(* backend/transaction: get and list                                       *)

\* get_transaction with the filter {"user_id": user} only: the first transaction
\* of the user
get_transaction_of_user(docs, id, user) ==
    LET hits == {i \in DOMAIN docs : docs[i].user_id = user}
    IN  IF hits = {} THEN Raise("HTTPException 404")
        ELSE Ok(docs[CHOOSE i \in hits : \A j \in hits : i <= j])

get_transaction(docs, id, user) ==
    LET i == find_one(docs, id, user)
    IN  IF i = 0 THEN Raise("HTTPException 404")
        ELSE IF ~Valid(docs[i]) THEN Raise("ValidationError")
        ELSE Ok(docs[i])

TransactionListQuery(page, limit, start_date, end_date, transaction_type, category_id, subcategory_id, sort_by, sort_order) ==
    [page |-> page, limit |-> limit, start_date |-> start_date,
     end_date |-> end_date, transaction_type |-> transaction_type,
     category_id |-> category_id, subcategory_id |-> subcategory_id,
     sort_by |-> sort_by, sort_order |-> sort_order]

\* validate_page and validate_limit, which the Query(...) bounds of the route
\* repeat
ValidListQuery(query) ==
    /\ query.page >= 1
    /\ query.limit >= 1
    /\ query.limit <= 100

\* the filter_conditions that get_transaction_list builds, applied to doc
list_filter_conditions(doc, query, user) ==
    /\ doc.user_id = user
    /\ doc.is_deleted = FALSE
    /\ IsNone(query.start_date)
           \/ doc.created_at >= Timestamp(Val(query.start_date))
    /\ IsNone(query.end_date)
           \/ doc.created_at <= Timestamp(EndOfDay(Val(query.end_date)))
    /\ IsNone(query.transaction_type) \/ doc.type = Val(query.transaction_type)
    /\ IsNone(query.category_id) \/ doc.category_id = Val(query.category_id)
    /\ IsNone(query.subcategory_id)
           \/ doc.subcategory_id = Val(query.subcategory_id)

\* the value a document is sorted by
SortKey(doc, sort_by) ==
    CASE sort_by = "transaction_date" -> Timestamp(doc.transaction_date)
      [] sort_by = "amount" -> doc.amount
      [] sort_by = "created_at" -> doc.created_at
      [] sort_by = "updated_at" -> doc.updated_at

\* db.find_with_pagination: the matching documents sorted, then skip and limit;
\* documents with equal keys stay in insertion order
find_with_pagination(matching, sort_by, sort_direction, skip, limit) ==
    LET sorted == SortBy(matching,
                         LAMBDA a, b : IF sort_direction = 1
                                       THEN SortKey(a, sort_by) < SortKey(b, sort_by)
                                       ELSE SortKey(a, sort_by) > SortKey(b, sort_by))
        stop == IF skip + limit < Len(sorted) THEN skip + limit ELSE Len(sorted)
    IN  SubSeq(sorted, skip + 1, stop)

TransactionListResponse(txs, total, page, limit, total_pages, has_next, has_prev) ==
    [transactions |-> txs, total |-> total, page |-> page, limit |-> limit,
     total_pages |-> total_pages, has_next |-> has_next, has_prev |-> has_prev]

\* the response built from the matching documents
list_response(matching, query) ==
    LET total == Len(matching)
        skip == (query.page - 1) * query.limit
        total_pages == (total + query.limit - 1) \div query.limit
        sort_direction == IF query.sort_order = "asc" THEN 1 ELSE -1
        documents == find_with_pagination(matching, query.sort_by, sort_direction,
                                          skip, query.limit)
    IN  TransactionListResponse(Filter(documents, Valid), total, query.page,
                                query.limit, total_pages,
                                query.page < total_pages, query.page > 1)

get_transaction_list(docs, query, user) ==
    Ok(list_response(Filter(docs, LAMBDA doc : list_filter_conditions(doc, query, user)),
                     query))

GetTransaction(u, id) ==
    /\ call' = Call("get_transaction", u, [id |-> id])
    /\ result' = ResponseOf(get_transaction(db, id, u))
    /\ transactions' = << >>
    /\ UNCHANGED <<db, clock, last, inflight, ws_vars>>

GetTransactionList(u, query) ==
    /\ call' = Call("get_transaction_list", u, query)
    /\ result' = IF ValidListQuery(query)
                 THEN ResponseOf(get_transaction_list(db, query, u))
                 ELSE Response(422, << >>)
    /\ transactions' = << >>
    /\ UNCHANGED <<db, clock, last, inflight, ws_vars>>

\* the requests of the model of the transaction service
TxCreateRequests ==
    {CreateTransactionRequest("expense", a, d, "food_dining", "lunch", None, None) :
        a \in {100, 0}, d \in TxDates}

TxUpdateRequests ==
    {[UpdateTransactionRequest EXCEPT !.amount = Some(0)]}

\* date ranges of the list queries: none, and one that holds the time of
\* creation Instants[1] and not the transaction date
ListRanges ==
    {<<None, None>>,
     <<Some(DateTime(2024, 12, 1, 0, 0, 0)), Some(DateTime(2024, 12, 25, 0, 0, 0))>>}

\* <<page, limit>> of the list queries; <<0, 1>> is rejected
Pagings == ((1..MaxTx) \X (1..MaxTx)) \cup {<<0, 1>>}

ListQueries ==
    {TransactionListQuery(pg[1], pg[2], range[1], range[2], None, None, None,
                          "transaction_date", "desc") :
        pg \in Pagings, range \in ListRanges}

NextTx ==
    \/ \E u \in Users, request \in TxCreateRequests : CreateTransaction(u, request)
    \/ \E u \in Users, id \in 1..(MaxTx + 1), request \in TxUpdateRequests :
           UpdateTransaction(u, id, request)
    \/ \E u \in Users, id \in 1..(MaxTx + 1) : DeleteTransaction(u, id)
    \/ \E u \in Users, id \in 1..(MaxTx + 1) : GetTransaction(u, id)
    \/ \E u \in Users, query \in ListQueries : GetTransactionList(u, query)

SpecTx == Init /\ [][NextTx]_vars

----------------------------------------------------------------------------
(* Transactions of either type in either kind of category, and the         *)
(* analytics routes that take transaction_type                             *)

\* a category with one of its subcategories
KindCategories == {<<"food_dining", "lunch">>, <<"income", "income_other">>}

KindCreateRequests ==
    {CreateTransactionRequest(ty, 100, d, c[1], c[2], None, None) :
        ty \in TransactionType, d \in TxDates, c \in KindCategories}

KindUpdateRequests ==
    {[UpdateTransactionRequest EXCEPT !.type = Some(ty)] : ty \in TransactionType}

NextKinds ==
    \/ \E u \in Users, request \in KindCreateRequests :
           CreateTransaction(u, request)
    \/ \E u \in Users, id \in 1..MaxTx, request \in KindUpdateRequests :
           UpdateTransaction(u, id, request)
    \/ \E u \in Users : GetCategoryBreakdown(u, <<None, None>>, Some("expense"))
    \/ \E u \in Users :
           GetAnalyticsOverview(u, <<None, None>>, DefaultPeriod, Some("expense"))

SpecKinds == Init /\ [][NextKinds]_vars

----------------------------------------------------------------------------
(* Updates of the category or of the subcategory, and lists by subcategory *)

TaxonomyUpdateRequests ==
    {[UpdateTransactionRequest EXCEPT !.category_id = Some(c)] : c \in CategoryId}
        \cup {[UpdateTransactionRequest EXCEPT !.subcategory_id = Some("lunch")]}

TaxonomyQueries ==
    {TransactionListQuery(1, MaxTx, None, None, None, None, Some(sc), "created_at", "desc") :
        sc \in {"lunch", "income_other"}}

NextTaxonomy ==
    \/ \E u \in Users, request \in KindCreateRequests :
           CreateTransaction(u, request)
    \/ \E u \in Users, id \in 1..MaxTx, request \in TaxonomyUpdateRequests :
           UpdateTransaction(u, id, request)
    \/ \E u \in Users, query \in TaxonomyQueries : GetTransactionList(u, query)

SpecTaxonomy == Init /\ [][NextTaxonomy]_vars

----------------------------------------------------------------------------
(* update_transaction and delete_transaction as the event loop runs them:  *)
(* each awaits find_one, then awaits update_one, and other requests run in *)
(* between                                                                 *)

\* update_one(transaction_collection, {"id": id, "user_id": user}, fields): the
\* fields are set on the first document that matches
update_one(docs, id, user, fields) ==
    LET i == find_one(docs, id, user)
    IN  IF i = 0 THEN docs
        ELSE [docs EXCEPT ![i] = [k \in DOMAIN @ |->
                                     IF k \in DOMAIN fields THEN fields[k] ELSE @[k]]]

RaceUpdateRequests ==
    {[UpdateTransactionRequest EXCEPT !.amount = Some(250)]}

\* update_transaction up to its second await: the document is read, the
\* Transaction built and updated
UpdateRead(u, id, request) ==
    /\ Cardinality(inflight) < MaxTx
    /\ find_one(db, id, u) # 0
    /\ ~Raised(update_transaction(db, id, request, u, now))
    /\ inflight' = inflight \cup
           {[op |-> "update_transaction", user |-> u, id |-> id, request |-> request,
             fields |-> update_transaction(db, id, request, u, now).val]}
    /\ UNCHANGED <<db, clock, transactions, call, result, last, ws_vars>>

\* delete_transaction up to its second await: the document was found
DeleteRead(u, id) ==
    /\ Cardinality(inflight) < MaxTx
    /\ find_one(db, id, u) # 0
    /\ inflight' = inflight \cup
           {[op |-> "delete_transaction", user |-> u, id |-> id, request |-> << >>,
             fields |-> [is_deleted |-> TRUE]]}
    /\ UNCHANGED <<db, clock, transactions, call, result, last, ws_vars>>

\* the update_one of a request in flight, and its answer
Write(p) ==
    /\ p \in inflight
    /\ inflight' = inflight \ {p}
    /\ db' = update_one(db, p.id, p.user, p.fields)
    /\ call' = Call(p.op, p.user, [id |-> p.id, request |-> p.request])
    /\ result' = Response(200, IF p.op = "update_transaction" THEN p.fields ELSE << >>)
    /\ transactions' = << >>
    /\ UNCHANGED <<clock, last, ws_vars>>

NextRace ==
    \/ \E u \in Users, request \in TxCreateRequests : CreateTransaction(u, request)
    \/ \E u \in Users, id \in 1..MaxTx, request \in RaceUpdateRequests :
           UpdateRead(u, id, request)
    \/ \E u \in Users, id \in 1..MaxTx : DeleteRead(u, id)
    \/ \E p \in inflight : Write(p)

SpecRace == Init /\ [][NextRace]_vars

----------------------------------------------------------------------------
(* The websocket service: connections, their messages and the price loop,  *)
(* interleaved at every await                                              *)

NextCrypto ==
    \/ \E websocket \in WebSockets : Connect(websocket)
    \/ \E websocket \in WebSockets, ok \in BOOLEAN : SendMessage(websocket, ok)
    \/ \E websocket \in WebSockets, message \in ClientMessages :
           ReceiveText(websocket, message)
    \/ \E websocket \in WebSockets : Disconnect(websocket)
    \/ \E symbol \in symbols : BroadcastPriceUpdate(symbol)
    \/ BroadcastSend

SpecCrypto == Init /\ [][NextCrypto]_vars

----------------------------------------------------------------------------
(* The aggregate computations applied to a transaction slice               *)

\* the dates of the transactions of a slice: the Sunday that ends the last ISO
\* week of 2022 and the Monday after it
CalcDates == {DateTime(2023, 1, 1, 0, 0, 0), DateTime(2023, 1, 2, 18, 30, 0)}

CalcAmounts == {100, 250}

\* (category, subcategory) of the transactions of a slice
CalcCategories ==
    {<<"food_dining", "lunch">>, <<"food_dining", "dinner">>,
     <<"income", "income_other">>}

\* what distinguishes one transaction of a slice from another
CalcFields == TransactionType \X CalcAmounts \X CalcDates \X CalcCategories

\* the well-formed slices of n transactions of one user: the id is the position
SlicesOf(n) ==
    {[i \in 1..n |->
         Transaction(i, "u1", f[i][1], f[i][2], f[i][3], f[i][4][1], f[i][4][2],
                     None, None, Timestamp(Instants[1]), Timestamp(Instants[1]),
                     FALSE)] :
        f \in [1..n -> CalcFields]}

InitCalc ==
    /\ db = << >>
    /\ clock = 1
    /\ transactions \in UNION {SlicesOf(n) : n \in 0..MaxLen}
    /\ call = NoCall
    /\ result = << >>
    /\ last = None
    /\ inflight = {}
    /\ InitCrypto

PeriodQuery(period) == AnalyticsQuery(None, None, period, None, None)

\* Each action is one call on the slice; a behaviour makes one call.

CalcFinancialSummary ==
    /\ call = NoCall
    /\ call' = Call("_calculate_financial_summary", "u1", << >>)
    /\ result' = _calculate_financial_summary(transactions)
    /\ UNCHANGED <<db, clock, transactions, last, inflight, ws_vars>>

CalcCategoryBreakdown ==
    /\ call = NoCall
    /\ call' = Call("_calculate_category_breakdown", "u1", << >>)
    /\ result' = _calculate_category_breakdown(transactions)
    /\ UNCHANGED <<db, clock, transactions, last, inflight, ws_vars>>

CalcSpendingTrends(period) ==
    /\ call = NoCall
    /\ call' = Call("_calculate_spending_trends", "u1", PeriodQuery(period))
    /\ result' = _calculate_spending_trends(transactions, PeriodQuery(period))
    /\ UNCHANGED <<db, clock, transactions, last, inflight, ws_vars>>

CalcTagAnalytics ==
    /\ call = NoCall
    /\ call' = Call("_calculate_tag_analytics", "u1", << >>)
    /\ result' = _calculate_tag_analytics(transactions)
    /\ UNCHANGED <<db, clock, transactions, last, inflight, ws_vars>>

CalcPeriodComparison(period) ==
    /\ call = NoCall
    /\ call' = Call("_calculate_period_comparison", "u1", PeriodQuery(period))
    /\ result' = _calculate_period_comparison(transactions, PeriodQuery(period))
    /\ UNCHANGED <<db, clock, transactions, last, inflight, ws_vars>>

CalcOverview(period) ==
    /\ call = NoCall
    /\ call' = Call("get_analytics_overview", "u1", PeriodQuery(period))
    /\ result' = get_analytics_overview(transactions, PeriodQuery(period))
    /\ UNCHANGED <<db, clock, transactions, last, inflight, ws_vars>>

\* _get_period_key on the date of the i-th transaction
CalcPeriodKey(i, period) ==
    /\ call = NoCall
    /\ call' = Call("_get_period_key", "u1", [date |-> transactions[i].transaction_date, period |-> period])
    /\ result' = _get_period_key(transactions[i].transaction_date, period)
    /\ UNCHANGED <<db, clock, transactions, last, inflight, ws_vars>>

NextCalc ==
    \/ CalcFinancialSummary
    \/ CalcCategoryBreakdown
    \/ \E period \in AnalyticsPeriod : CalcSpendingTrends(period)
    \/ CalcTagAnalytics
    \/ \E period \in AnalyticsPeriod : CalcPeriodComparison(period)
    \/ \E period \in AnalyticsPeriod : CalcOverview(period)
    \/ \E i \in DOMAIN transactions, period \in AnalyticsPeriod :
           CalcPeriodKey(i, period)

SpecCalc == InitCalc /\ [][NextCalc]_vars

----------------------------------------------------------------------------
(* The aggregate computations on slices with tags and on larger slices of  *)
(* few kinds of transaction, each called once and then once again          *)

MaxShare == 4      \* longest slice drawn from ShareFields
MaxTagged == 2     \* longest slice drawn from TaggedFields

\* <<type, amount, category, subcategory>> of the transactions of a slice for
\* the shares of the breakdown. The amount 0 is what the guards of lines 194
\* and 200 are written for: validate_amount keeps it out of the slices that
\* _get_filtered_transactions builds.
ShareFields ==
    {<<"expense", 100, "food_dining", "lunch">>,
     <<"expense", 200, "food_dining", "lunch">>,
     <<"expense", 300, "food_dining", "dinner">>,
     <<"income", 1000, "income", "income_other">>,
     <<"expense", 0, "food_dining", "dinner">>}

ShareSlicesOf(n) ==
    {[i \in 1..n |->
         Transaction(i, "u1", f[i][1], f[i][2], DateTime(2023, 1, 2, 18, 30, 0),
                     f[i][3], f[i][4], None, None, Timestamp(Instants[1]),
                     Timestamp(Instants[1]), FALSE)] :
        f \in [1..n -> ShareFields]}

\* one tag more than _calculate_tag_analytics returns
ManyTags ==
    <<"t01", "t02", "t03", "t04", "t05", "t06", "t07", "t08", "t09", "t10", "t11",
      "t12", "t13", "t14", "t15", "t16", "t17", "t18", "t19", "t20", "t21">>

\* tags of a transaction: Optional[List[str]]
TagLists ==
    {None, Some(<< >>), Some(<<"a">>), Some(<<"a", "b">>), Some(<<"a", "a">>),
     Some(<<"A">>), Some(ManyTags), Some(<<"t21">>)}

TaggedAmounts == {10, 20}

TaggedSlicesOf(n) ==
    {[i \in 1..n |->
         Transaction(i, "u1", "expense", f[i][1], DateTime(2023, 1, 2, 18, 30, 0),
                     "food_dining", "lunch", None, f[i][2], Timestamp(Instants[1]),
                     Timestamp(Instants[1]), FALSE)] :
        f \in [1..n -> TaggedAmounts \X TagLists]}

InitAgg ==
    /\ db = << >>
    /\ clock = 1
    /\ transactions \in UNION ({ShareSlicesOf(n) : n \in 0..MaxShare}
                                \cup {TaggedSlicesOf(n) : n \in 0..MaxTagged})
    /\ call = NoCall
    /\ result = << >>
    /\ last = None
    /\ inflight = {}
    /\ InitCrypto

\* the aggregate computations
CalcOps ==
    {"_calculate_financial_summary", "_calculate_category_breakdown",
     "_calculate_spending_trends", "_calculate_tag_analytics",
     "_calculate_period_comparison", "get_analytics_overview"}

\* the computation of the current call, applied to the slice once more
Recalc ==
    CASE call.op = "_calculate_financial_summary" ->
             _calculate_financial_summary(transactions)
      [] call.op = "_calculate_category_breakdown" ->
             _calculate_category_breakdown(transactions)
      [] call.op = "_calculate_spending_trends" ->
             _calculate_spending_trends(transactions, call.args)
      [] call.op = "_calculate_tag_analytics" ->
             _calculate_tag_analytics(transactions)
      [] call.op = "_calculate_period_comparison" ->
             _calculate_period_comparison(transactions, call.args)
      [] call.op = "get_analytics_overview" ->
             get_analytics_overview(transactions, call.args)

\* the same call again, on the list the first call was given: no _calculate_*
\* assigns to the list or to one of its elements
CalcAgain ==
    /\ call.op \in CalcOps
    /\ last = None
    /\ last' = Some([call |-> call, result |-> result, transactions |-> transactions])
    /\ result' = Recalc
    /\ UNCHANGED <<db, clock, transactions, call, inflight, ws_vars>>

NextAgg ==
    \/ CalcFinancialSummary
    \/ CalcCategoryBreakdown
    \/ \E period \in AnalyticsPeriod : CalcSpendingTrends(period)
    \/ CalcTagAnalytics
    \/ \E period \in AnalyticsPeriod : CalcPeriodComparison(period)
    \/ \E period \in AnalyticsPeriod : CalcOverview(period)
    \/ CalcAgain

SpecAgg == InitAgg /\ [][NextAgg]_vars

----------------------------------------------------------------------------
(* _calculate_financial_summary on slices spread over several days         *)

MaxDaily == 3      \* longest slice drawn from DailyFields

\* two times of one day and two other days
DailyDates ==
    {DateTime(2023, 1, 1, 0, 0, 0), DateTime(2023, 1, 1, 18, 30, 0),
     DateTime(2023, 1, 2, 18, 30, 0), DateTime(2023, 1, 3, 9, 0, 0)}

DailyAmounts == {100, 200}

DailyFields == TransactionType \X DailyAmounts \X DailyDates

DailySlicesOf(n) ==
    {[i \in 1..n |->
         Transaction(i, "u1", f[i][1], f[i][2], f[i][3], "food_dining", "lunch",
                     None, None, Timestamp(Instants[1]), Timestamp(Instants[1]),
                     FALSE)] :
        f \in [1..n -> DailyFields]}

InitDaily ==
    /\ db = << >>
    /\ clock = 1
    /\ transactions \in UNION {DailySlicesOf(n) : n \in 0..MaxDaily}
    /\ call = NoCall
    /\ result = << >>
    /\ last = None
    /\ inflight = {}
    /\ InitCrypto

NextDaily == CalcFinancialSummary

SpecDaily == InitDaily /\ [][NextDaily]_vars

----------------------------------------------------------------------------
(* Properties                                                              *)

RECURSIVE AmountAt(_)
\* the sum of the amounts of the transactions of the slice at the positions S
AmountAt(S) ==
    IF S = {} THEN 0
    ELSE LET i == CHOOSE i \in S : TRUE
         IN  transactions[i].amount + AmountAt(S \ {i})

\* the positions of the slice whose transaction satisfies P
Positions(P(_)) == {i \in DOMAIN transactions : P(transactions[i])}

\* the bucket key of a date that section 4.1 of the specification asks for
WantedKey(date, period) ==
    CASE period = "daily" -> StrfYmd(date)
      [] period = "weekly" -> WeekKey(IsoCalendar(date))
      [] period = "monthly" -> StrfYm(date)
      [] period = "yearly" -> StrfY(date)

\* the positions of the slice whose transaction falls into bucket k
InBucket(k, period) ==
    Positions(LAMBDA t : WantedKey(t.transaction_date, period) = k)

\* C1: for a non-empty slice _calculate_financial_summary returns total_income =
\* the sum of the income amounts, total_expense = the sum of the expense amounts,
\* their sum is the sum of all amounts, and net_income = total_income -
\* total_expense.
C1_SummaryTotals ==
    (call.op = "_calculate_financial_summary" /\ transactions # << >>) =>
        /\ ~Raised(result)
        /\ result.val.total_income = AmountAt(Positions(LAMBDA t : t.type = "income"))
        /\ result.val.total_expense = AmountAt(Positions(LAMBDA t : t.type = "expense"))
        /\ result.val.total_income + result.val.total_expense
               = AmountAt(DOMAIN transactions)
        /\ result.val.net_income
               = result.val.total_income - result.val.total_expense

C1_Witness ==
    /\ call.op = "_calculate_financial_summary"
    /\ ~Raised(result)
    /\ result.val.total_income > 0
    /\ result.val.total_expense > result.val.total_income

EmptySummary(v) ==
    /\ v.total_income = 0
    /\ v.total_expense = 0
    /\ v.net_income = 0
    /\ v.avg_daily_expense = 0
    /\ v.largest_expense = EmptyDict
    /\ v.most_frequent_category = EmptyDict

\* C2: on the empty slice each of the five computations and the overview returns
\* without raising; every list is empty, every number of the summary is 0, and
\* largest_expense and most_frequent_category are empty records.
C2_EmptySlice ==
    (transactions = << >> /\ call.op # "none") =>
        /\ ~Raised(result)
        /\ call.op = "_calculate_financial_summary" => EmptySummary(result.val)
        /\ call.op \in {"_calculate_category_breakdown", "_calculate_spending_trends",
                        "_calculate_tag_analytics", "_calculate_period_comparison"}
               => result.val = << >>
        /\ call.op = "get_analytics_overview" =>
               /\ EmptySummary(result.val.summary)
               /\ result.val.category_breakdown = << >>
               /\ result.val.spending_trends = << >>
               /\ result.val.top_tags = << >>
               /\ result.val.period_comparison = << >>

C2_Witness ==
    /\ transactions = << >>
    /\ call.op = "_calculate_period_comparison"
    /\ result = Ok(<< >>)

\* C3: the slice an analytics operation aggregates for a user holds only
\* transactions of that user that are not soft-deleted, whatever creates,
\* updates and deletes came before.
C3_OwnerAndNotDeleted ==
    call.op \in AnalyticsOps =>
        \A i \in DOMAIN transactions :
            /\ transactions[i].user_id = call.user
            /\ transactions[i].is_deleted = FALSE
            /\ \E j \in DOMAIN db :
                   /\ db[j].id = transactions[i].id
                   /\ db[j].user_id = call.user
                   /\ db[j].is_deleted = FALSE

C3_Witness ==
    /\ call.op \in AnalyticsOps
    /\ transactions # << >>
    /\ \E j \in DOMAIN db :
           /\ db[j].user_id = call.user
           /\ db[j].is_deleted

\* the date range of a query read on the transaction date
DatedInRange(doc, query) ==
    /\ IsNone(query.start_date)
           \/ Timestamp(doc.transaction_date) >= Timestamp(Val(query.start_date))
    /\ IsNone(query.end_date)
           \/ Timestamp(doc.transaction_date)
                  <= Timestamp(EndOfDay(Val(query.end_date)))

\* C4: with start_date and/or end_date, a transaction of the user that is not
\* deleted is in the aggregated slice exactly when its transaction date lies
\* between start_date and 23:59:59 of end_date, whenever it was created; a range
\* that holds no transaction date gives zero totals.
C4_RangeOnTransactionDate ==
    (/\ call.op \in AnalyticsOps
     /\ result.status_code = 200
     /\ ~(IsNone(call.args.start_date) /\ IsNone(call.args.end_date))) =>
        /\ \A j \in DOMAIN db :
               (/\ db[j].user_id = call.user
                /\ db[j].is_deleted = FALSE
                /\ IsNone(call.args.transaction_type)
                       \/ db[j].type = Val(call.args.transaction_type)) =>
                   ((\E i \in DOMAIN transactions : transactions[i].id = db[j].id)
                        <=> DatedInRange(db[j], call.args))
        /\ (/\ call.op = "get_financial_summary"
            /\ \A j \in DOMAIN db : ~DatedInRange(db[j], call.args)) =>
               (result.data.total_income = 0 /\ result.data.total_expense = 0)

\* C5: the period 'daily' is accepted by the spending-trends route, not rejected
\* as a validation error, and its bucket keys have the form YYYY-MM-DD.
C5_DailyAccepted ==
    (call.op = "get_spending_trends" /\ call.args.period = "daily") =>
        /\ result.status_code # 422
        /\ result.status_code = 200 =>
               \A i \in DOMAIN result.data :
                   /\ Len(result.data[i].date) = 10
                   /\ result.data[i].date[5] = CharDash
                   /\ result.data[i].date[8] = CharDash

\* C6: for weekly granularity _get_period_key returns "<ISO year>-W<ISO week,
\* two digits>" of the date; for 2023-01-01 that is "2022-W52".
C6_WeeklyKey ==
    (call.op = "_get_period_key" /\ call.args.period = "weekly") =>
        /\ ~Raised(result)
        /\ result.val = WeekKey(IsoCalendar(call.args.date))
        /\ DateOf(call.args.date) = <<2023, 1, 1>> =>
               result.val = <<50, 48, 50, 50, CharDash, CharW, 53, 50>>

\* C7: for a non-empty slice and an accepted granularity
\* _calculate_spending_trends returns, without error, one entry per bucket key
\* of the slice, with the sum of the amounts and the number of the bucket's
\* transactions, in strictly ascending order of key.
C7_SpendingTrends ==
    (call.op = "_calculate_spending_trends" /\ transactions # << >>) =>
        /\ ~Raised(result)
        /\ LET st == result.val
               period == call.args.period
           IN  /\ {st[i].date : i \in DOMAIN st}
                      = {WantedKey(t.transaction_date, period) :
                             t \in Range(transactions)}
               /\ \A i \in DOMAIN st :
                      /\ st[i].amount = AmountAt(InBucket(st[i].date, period))
                      /\ st[i].transaction_count
                             = Cardinality(InBucket(st[i].date, period))
               /\ \A i, j \in DOMAIN st : i < j => StrLess(st[i].date, st[j].date)

\* C8: for a non-empty slice and an accepted granularity
\* _calculate_period_comparison returns, without error, one entry per bucket key
\* in ascending order, with the bucket's income, its expense, net = income -
\* expense and the number of its transactions; the counts add up to the size of
\* the slice.
C8_PeriodComparison ==
    (call.op = "_calculate_period_comparison" /\ transactions # << >>) =>
        /\ ~Raised(result)
        /\ LET pc == result.val
               period == call.args.period
           IN  /\ {pc[i].period : i \in DOMAIN pc}
                      = {WantedKey(t.transaction_date, period) :
                             t \in Range(transactions)}
               /\ \A i \in DOMAIN pc :
                      /\ pc[i].income
                             = AmountAt(InBucket(pc[i].period, period)
                                            \cap Positions(LAMBDA t : t.type = "income"))
                      /\ pc[i].expense
                             = AmountAt(InBucket(pc[i].period, period)
                                            \cap Positions(LAMBDA t : t.type = "expense"))
                      /\ pc[i].net = pc[i].income - pc[i].expense
                      /\ pc[i].transaction_count
                             = Cardinality(InBucket(pc[i].period, period))
               /\ \A i, j \in DOMAIN pc : i < j => StrLess(pc[i].period, pc[j].period)
               /\ SumSeq(Map(pc, LAMBDA e : e.transaction_count)) = Len(transactions)

\* C9: for a non-empty slice get_analytics_overview completes without an error
\* response, and each of its five parts is what the standalone computation
\* returns for the same slice and query.
C9_OverviewOfParts ==
    (call.op = "get_analytics_overview" /\ transactions # << >>) =>
        /\ ~Raised(result)
        /\ Ok(result.val.summary) = _calculate_financial_summary(transactions)
        /\ Ok(result.val.category_breakdown)
               = _calculate_category_breakdown(transactions)
        /\ Ok(result.val.spending_trends)
               = _calculate_spending_trends(transactions, call.args)
        /\ Ok(result.val.top_tags) = _calculate_tag_analytics(transactions)
        /\ Ok(result.val.period_comparison)
               = _calculate_period_comparison(transactions, call.args)

\* C10: _calculate_category_breakdown puts every transaction into exactly one
\* category entry and exactly one subcategory entry of it: totals and counts of
\* the categories add up to those of the slice, and inside a category those of
\* the subcategories add up to the category's.
C10_BreakdownPartition ==
    call.op = "_calculate_category_breakdown" =>
        /\ ~Raised(result)
        /\ LET cb == result.val
               Of(c) == Positions(LAMBDA t : t.category_id = c)
               OfSub(c, sc) ==
                   Positions(LAMBDA t : t.category_id = c /\ t.subcategory_id = sc)
           IN  /\ \A i \in DOMAIN transactions :
                      \E k \in DOMAIN cb :
                          /\ cb[k].category_id = transactions[i].category_id
                          /\ \A k2 \in DOMAIN cb :
                                 cb[k2].category_id = cb[k].category_id => k2 = k
                          /\ \E m \in DOMAIN cb[k].subcategories :
                                 /\ cb[k].subcategories[m].subcategory_id
                                        = transactions[i].subcategory_id
                                 /\ \A m2 \in DOMAIN cb[k].subcategories :
                                        cb[k].subcategories[m2].subcategory_id
                                            = cb[k].subcategories[m].subcategory_id
                                        => m2 = m
               /\ \A k \in DOMAIN cb :
                      /\ cb[k].total_amount = AmountAt(Of(cb[k].category_id))
                      /\ cb[k].transaction_count = Cardinality(Of(cb[k].category_id))
                      /\ \A m \in DOMAIN cb[k].subcategories :
                             LET e == cb[k].subcategories[m]
                             IN  /\ e.total_amount
                                        = AmountAt(OfSub(cb[k].category_id, e.subcategory_id))
                                 /\ e.transaction_count
                                        = Cardinality(OfSub(cb[k].category_id,
                                                            e.subcategory_id))
                      /\ SumSeq(Map(cb[k].subcategories, LAMBDA e : e.total_amount))
                             = cb[k].total_amount
                      /\ SumSeq(Map(cb[k].subcategories, LAMBDA e : e.transaction_count))
                             = cb[k].transaction_count
               /\ SumSeq(Map(cb, LAMBDA e : e.total_amount))
                      = AmountAt(DOMAIN transactions)
               /\ SumSeq(Map(cb, LAMBDA e : e.transaction_count)) = Len(transactions)

C10_Witness ==
    /\ call.op = "_calculate_category_breakdown"
    /\ ~Raised(result)
    /\ \E k \in DOMAIN result.val :
           /\ result.val[k].transaction_count = 2
           /\ Len(result.val[k].subcategories) = 1

\* p is x / y * 100 rounded to 2 decimals, in hundredths of a percent; 0 when
\* y is 0
IsShare(p, x, y) ==
    IF y = 0 THEN p = 0
    ELSE /\ 2 * (p * y - x * 10000) <= y
         /\ 2 * (x * 10000 - p * y) <= y

\* C11: in _calculate_category_breakdown a category's percentage is its total /
\* the sum of all amounts of the slice (income and expense together) x 100,
\* rounded to 2 decimals, and a subcategory's percentage is its total / the
\* category's total x 100, rounded to 2 decimals; either is 0 when its
\* denominator is 0. For expenses 100, 200, 300 in one category with
\* subcategories a, a, b and an income of 1000, the category has total 600 and
\* percentage 37.5, and subcategory a has total 300 and percentage 50.0.
C11_BreakdownShares ==
    call.op = "_calculate_category_breakdown" =>
        /\ ~Raised(result)
        /\ \A k \in DOMAIN result.val :
               LET c == result.val[k]
               IN  /\ IsShare(c.percentage, c.total_amount,
                              AmountAt(DOMAIN transactions))
                   /\ \A m \in DOMAIN c.subcategories :
                          IsShare(c.subcategories[m].percentage,
                                  c.subcategories[m].total_amount, c.total_amount)
        /\ (/\ Len(transactions) = 4
            /\ {<<transactions[i].type, transactions[i].amount,
                  transactions[i].category_id, transactions[i].subcategory_id>> :
                    i \in 1..4}
                   = {<<"expense", 100, "food_dining", "lunch">>,
                      <<"expense", 200, "food_dining", "lunch">>,
                      <<"expense", 300, "food_dining", "dinner">>,
                      <<"income", 1000, "income", "income_other">>}) =>
               \E k \in DOMAIN result.val :
                   LET c == result.val[k]
                   IN  /\ c.category_id = "food_dining"
                       /\ c.total_amount = 600
                       /\ c.percentage = 3750
                       /\ \E m \in DOMAIN c.subcategories :
                              /\ c.subcategories[m].subcategory_id = "lunch"
                              /\ c.subcategories[m].total_amount = 300
                              /\ c.subcategories[m].percentage = 5000

C11_Witness ==
    /\ call.op = "_calculate_category_breakdown"
    /\ ~Raised(result)
    /\ Len(result.val) = 2
    /\ result.val[1].category_id = "income"
    /\ result.val[2].total_amount = 600
    /\ result.val[2].percentage = 3750
    /\ \E m \in DOMAIN result.val[2].subcategories :
           /\ result.val[2].subcategories[m].subcategory_id = "lunch"
           /\ result.val[2].subcategories[m].percentage = 5000

\* the places <<transaction, position in its tag list>> where a tag occurs
TagPlaces ==
    {p \in (DOMAIN transactions) \X (1..Len(ManyTags)) :
        /\ ~IsNone(transactions[p[1]].tags)
        /\ p[2] <= Len(Val(transactions[p[1]].tags))}

TagAt(p) == Val(transactions[p[1]].tags)[p[2]]

PlacesOf(tag) == {p \in TagPlaces : TagAt(p) = tag}

RECURSIVE AmountOver(_)
\* the sum of the amounts of the transactions of the places P
AmountOver(P) ==
    IF P = {} THEN 0
    ELSE LET p == CHOOSE p \in P : TRUE
         IN  transactions[p[1]].amount + AmountOver(P \ {p})

\* tag g is met before tag h by the loops over transactions and their tags
MetBefore(g, h) ==
    \E p \in PlacesOf(g) :
        \A q \in PlacesOf(h) : p[1] < q[1] \/ (p[1] = q[1] /\ p[2] < q[2])

\* C12: _calculate_tag_analytics returns min(20, number of distinct tags)
\* entries, one per tag, ordered non-increasing by total_amount with ties in the
\* order the tags are first met, and no tag left out has a total_amount greater
\* than that of a returned tag.
C12_TopTags ==
    call.op = "_calculate_tag_analytics" =>
        /\ ~Raised(result)
        /\ LET r == result.val
               all == {TagAt(p) : p \in TagPlaces}
               returned == {r[i].tag : i \in DOMAIN r}
           IN  /\ Len(r) = IF Cardinality(all) < 20 THEN Cardinality(all) ELSE 20
               /\ returned \subseteq all
               /\ Cardinality(returned) = Len(r)
               /\ \A i, j \in DOMAIN r :
                      i < j =>
                          \/ r[i].total_amount > r[j].total_amount
                          \/ /\ r[i].total_amount = r[j].total_amount
                             /\ MetBefore(r[i].tag, r[j].tag)
               /\ \A g \in all \ returned :
                      \A i \in DOMAIN r :
                          AmountOver(PlacesOf(g)) <= r[i].total_amount

C12_Witness ==
    /\ call.op = "_calculate_tag_analytics"
    /\ ~Raised(result)
    /\ Len(result.val) = 20
    /\ result.val[1].tag = "t21"
    /\ result.val[2].tag = "t01"
    /\ result.val[20].tag = "t19"
    /\ result.val[1].total_amount > result.val[2].total_amount

\* C13: every occurrence of a tag in a transaction's tag list (a duplicate
\* within one transaction each time, tags compared case-sensitively, no tags
\* nothing) adds the amount to the tag's total_amount and 1 to its
\* transaction_count, and avg_amount is total_amount / transaction_count rounded
\* to 2 decimals; for tags [a, b] with amount 10 and [a] with amount 20 the
\* result is a: 30, 2, 15 followed by b: 10, 1, 10.
C13_TagTotals ==
    call.op = "_calculate_tag_analytics" =>
        /\ ~Raised(result)
        /\ \A i \in DOMAIN result.val :
               LET e == result.val[i]
               IN  /\ e.total_amount = AmountOver(PlacesOf(e.tag))
                   /\ e.transaction_count = Cardinality(PlacesOf(e.tag))
                   /\ e.transaction_count > 0
                   /\ 2 * (e.avg_amount * e.transaction_count - e.total_amount)
                          <= e.transaction_count
                   /\ 2 * (e.total_amount - e.avg_amount * e.transaction_count)
                          <= e.transaction_count
        /\ (/\ Len(transactions) = 2
            /\ transactions[1].tags = Some(<<"a", "b">>)
            /\ transactions[1].amount = 10
            /\ transactions[2].tags = Some(<<"a">>)
            /\ transactions[2].amount = 20) =>
               result.val
                   = <<[tag |-> "a", total_amount |-> 30, transaction_count |-> 2,
                        avg_amount |-> 15],
                       [tag |-> "b", total_amount |-> 10, transaction_count |-> 1,
                        avg_amount |-> 10]>>

C13_Witness ==
    /\ call.op = "_calculate_tag_analytics"
    /\ ~Raised(result)
    /\ Len(transactions) = 2
    /\ transactions[1].tags = Some(<<"a", "a">>)
    /\ transactions[2].tags = Some(<<"A">>)
    /\ Len(result.val) = 2
    /\ result.val[1].transaction_count = 2
    /\ result.val[1].total_amount = 2 * transactions[1].amount

C15_PositiveAmounts == \A i \in DOMAIN db : db[i].amount > 0

\* the stored transactions of user u that are not deleted
Live(u) == {i \in DOMAIN db : db[i].user_id = u /\ db[i].is_deleted = FALSE}

\* C16: deletion is soft. A successful delete_transaction sets is_deleted and
\* leaves every other field; get_transaction by the owner then still returns the
\* transaction, with is_deleted = true; get_transaction_list neither returns it
\* nor counts it in total.
C16_SoftDelete ==
    [][/\ (call'.op = "delete_transaction" /\ result'.status_code = 200) =>
              \E i \in DOMAIN db :
                  /\ db[i].id = call'.args.id
                  /\ db[i].user_id = call'.user
                  /\ db' = [db EXCEPT ![i].is_deleted = TRUE]
       /\ call'.op = "get_transaction" =>
              \A i \in DOMAIN db :
                  (/\ db[i].id = call'.args.id
                   /\ db[i].user_id = call'.user
                   /\ db[i].is_deleted) =>
                      /\ result' = Response(200, db[i])
                      /\ db' = db
       /\ (call'.op = "get_transaction_list" /\ result'.status_code = 200) =>
              /\ \A k \in DOMAIN result'.data.transactions :
                     \E i \in Live(call'.user) :
                         db[i] = result'.data.transactions[k]
              /\ result'.data.total <= Cardinality(Live(call'.user))
              /\ db' = db]_vars

\* the stored transactions with the id of the call about to be answered that
\* belong to its caller
OwnOf(c) == {i \in DOMAIN db : db[i].id = c.args.id /\ db[i].user_id = c.user}

\* C17: get_transaction, update_transaction and delete_transaction with an id
\* that does not exist, or that belongs to another user, answer 404 and leave
\* every stored transaction unchanged.
C17_NotFound ==
    [][(/\ call'.op \in {"get_transaction", "update_transaction",
                         "delete_transaction"}
        /\ OwnOf(call') = {}) =>
           /\ result'.status_code = 404
           /\ db' = db]_vars

\* an update of another user's transaction was answered 404
C17_Witness ==
    /\ call.op = "update_transaction"
    /\ result.status_code = 404
    /\ \E i \in DOMAIN db : db[i].id = call.args.id /\ db[i].user_id # call.user
    /\ \A i \in DOMAIN db : db[i].amount = 100 /\ db[i].is_deleted = FALSE

\* the stored transactions that match the list query of the call just answered
Matching == {i \in DOMAIN db : list_filter_conditions(db[i], call.args, call.user)}

Min(a, b) == IF a <= b THEN a ELSE b

Max(a, b) == IF a >= b THEN a ELSE b

\* C18: get_transaction_list with page >= 1 and 1 <= limit <= 100 over N
\* matching transactions answers total = N, total_pages = ceil(N / limit),
\* has_next exactly when page < total_pages, has_prev exactly when page > 1, and
\* a page of min(limit, max(0, N - (page-1)*limit)) transactions; with N = 0
\* the page is empty and has_next and has_prev are false (has_prev on the first
\* page, the only one where "has_prev exactly when page > 1" allows it).
C18_Pagination ==
    (/\ call.op = "get_transaction_list"
     /\ call.args.page >= 1
     /\ call.args.limit >= 1
     /\ call.args.limit <= 100) =>
        LET N == Cardinality(Matching)
            page == call.args.page
            limit == call.args.limit
            r == result.data
        IN  /\ result.status_code = 200
            /\ r.total = N
            /\ r.total_pages * limit >= N
            /\ r.total_pages >= 0
            /\ (r.total_pages > 0 => (r.total_pages - 1) * limit < N)
            /\ r.has_next = (page < r.total_pages)
            /\ r.has_prev = (page > 1)
            /\ Len(r.transactions) = Min(limit, Max(0, N - (page - 1) * limit))
            /\ (N = 0 => /\ r.transactions = << >>
                          /\ ~r.has_next
                          /\ (page = 1 => ~r.has_prev))

\* C19: get_transaction_list with start_date and end_date returns only
\* transactions whose transaction_date lies between start_date and the end of
\* the day of end_date.
C19_ListRangeOnTransactionDate ==
    (/\ call.op = "get_transaction_list"
     /\ result.status_code = 200
     /\ ~IsNone(call.args.start_date)
     /\ ~IsNone(call.args.end_date)) =>
        \A k \in DOMAIN result.data.transactions :
            DatedInRange(result.data.transactions[k], call.args)

\* C20: in every store state reachable through create_transaction and
\* update_transaction, an analytics query filtered by transaction_type =
\* expense has total_income = 0 and a category breakdown without an entry for
\* the category 'income'.
C20_ExpenseOnly ==
    (/\ call.op \in {"get_category_breakdown", "get_analytics_overview"}
     /\ call.args.transaction_type = Some("expense")) =>
        /\ _calculate_financial_summary(transactions).val.total_income = 0
        /\ call.op = "get_category_breakdown" =>
               /\ result.status_code = 200
               /\ \A k \in DOMAIN result.data :
                      result.data[k].category_id # "income"
        /\ (call.op = "get_analytics_overview" /\ result.status_code = 200) =>
               /\ result.data.summary.total_income = 0
               /\ \A k \in DOMAIN result.data.category_breakdown :
                      result.data.category_breakdown[k].category_id # "income"

\* the category the taxonomy puts the subcategory sc in
ParentOf(sc) == CHOOSE c \in CategoryId : sc \in cat_map[c]

\* C21: after any sequence of create_transaction and update_transaction calls
\* the subcategory of every stored transaction belongs to its category, so every
\* transaction of a list filtered on a subcategory id carries the parent
\* category of that subcategory.
C21_SubcategoryOfCategory ==
    /\ \A i \in DOMAIN db : db[i].subcategory_id \in cat_map[db[i].category_id]
    /\ (/\ call.op = "get_transaction_list"
        /\ result.status_code = 200
        /\ ~IsNone(call.args.subcategory_id)) =>
           \A k \in DOMAIN result.data.transactions :
               result.data.transactions[k].category_id
                   = ParentOf(Val(call.args.subcategory_id))

\* C22: a transaction returned by a successful create_transaction can be fetched
\* by its owner with get_transaction under the returned id, and the fetched
\* record has the id, type, amount, category and subcategory of the create
\* request, with is_deleted = false.
C22_CreateThenGet ==
    [][(/\ call.op = "create_transaction"
        /\ result.status_code = 200
        /\ call'.op = "get_transaction"
        /\ call'.user = call.user
        /\ call'.args.id = result.data.id) =>
           /\ result'.status_code = 200
           /\ result'.data.id = result.data.id
           /\ result'.data.type = call.args.type
           /\ result'.data.amount = call.args.amount
           /\ result'.data.category_id = call.args.category_id
           /\ result'.data.subcategory_id = call.args.subcategory_id
           /\ result'.data.is_deleted = FALSE]_vars

\* the owner fetched the second transaction created, which nothing has touched
\* since
C22_Witness ==
    /\ call.op = "get_transaction"
    /\ result.status_code = 200
    /\ Len(db) = 2
    /\ call.args.id = db[2].id
    /\ result.data = db[2]
    /\ db[2].updated_at = db[2].created_at
    /\ db[2].is_deleted = FALSE
    /\ db[1].user_id = call.user

\* q is x / y rounded to the nearest unit, whichever way a tie goes
IsQuotient(q, x, y) ==
    /\ 2 * (q * y - x) <= y
    /\ 2 * (x - q * y) <= y

\* the positions of the expense transactions of the slice
ExpensePositions == {i \in DOMAIN transactions : transactions[i].type = "expense"}

\* the calendar days on which the slice has an expense
ExpenseDays ==
    {<<transactions[i].transaction_date.year, transactions[i].transaction_date.month,
       transactions[i].transaction_date.day>> : i \in ExpensePositions}

\* C23: avg_daily_expense is total_expense divided by the number of distinct
\* calendar dates that have an expense transaction, rounded to 2 decimals, and 0
\* when the slice has no expense transaction.
C23_AvgDailyExpense ==
    call.op = "_calculate_financial_summary" =>
        /\ ~Raised(result)
        /\ IF ExpensePositions = {}
           THEN result.val.avg_daily_expense = 0
           ELSE IsQuotient(result.val.avg_daily_expense,
                           AmountAt(ExpensePositions), Cardinality(ExpenseDays))

\* three expenses on two days, two of them at different times of one day, and
\* an average that is not a whole number of units
C23_Witness ==
    /\ call.op = "_calculate_financial_summary"
    /\ Cardinality(ExpensePositions) = 3
    /\ Cardinality(ExpenseDays) = 2
    /\ \E i, j \in ExpensePositions :
           /\ transactions[i].transaction_date # transactions[j].transaction_date
           /\ transactions[i].transaction_date.day = transactions[j].transaction_date.day
    /\ result.val.total_expense = 500
    /\ result.val.avg_daily_expense = 250

\* the number written in decimal by the characters a..b of the str s
RECURSIVE Decimal(_, _, _)
Decimal(s, a, b) ==
    IF b < a THEN 0 ELSE Decimal(s, a, b - 1) * 10 + (s[b] - 48)

\* s is the ISO 8601 text YYYY-MM-DDTHH:MM:SS of the datetime d
IsIsoOf(s, d) ==
    /\ Len(s) = 19
    /\ \A k \in {1, 2, 3, 4, 6, 7, 9, 10, 12, 13, 15, 16, 18, 19} : s[k] \in 48..57
    /\ s[5] = 45 /\ s[8] = 45 /\ s[11] = 84 /\ s[14] = 58 /\ s[17] = 58
    /\ Decimal(s, 1, 4) = d.year
    /\ Decimal(s, 6, 7) = d.month
    /\ Decimal(s, 9, 10) = d.day
    /\ Decimal(s, 12, 13) = d.hour
    /\ Decimal(s, 15, 16) = d.minute
    /\ Decimal(s, 18, 19) = d.second

\* C24: largest_expense is the snapshot (id, amount, description, category id,
\* ISO date) of the expense transaction of maximal amount, the first of them in
\* input order when several share that amount, and the empty record when the
\* slice has no expense, whatever income it holds.
C24_LargestExpense ==
    call.op = "_calculate_financial_summary" =>
        /\ ~Raised(result)
        /\ IF ExpensePositions = {}
           THEN result.val.largest_expense = EmptyDict
           ELSE \E i \in ExpensePositions :
                    /\ \A j \in ExpensePositions :
                           /\ transactions[j].amount <= transactions[i].amount
                           /\ j < i => transactions[j].amount < transactions[i].amount
                    /\ DOMAIN result.val.largest_expense
                           = {"id", "amount", "description", "category_id",
                              "transaction_date"}
                    /\ result.val.largest_expense.id = transactions[i].id
                    /\ result.val.largest_expense.amount = transactions[i].amount
                    /\ result.val.largest_expense.description
                           = transactions[i].description
                    /\ result.val.largest_expense.category_id
                           = transactions[i].category_id
                    /\ IsIsoOf(result.val.largest_expense.transaction_date,
                               transactions[i].transaction_date)

\* two expenses of the same amount on different dates: the first is reported
C24_Witness ==
    /\ call.op = "_calculate_financial_summary"
    /\ Len(transactions) = 2
    /\ ExpensePositions = {1, 2}
    /\ transactions[1].amount = transactions[2].amount
    /\ transactions[1].transaction_date # transactions[2].transaction_date
    /\ result.val.largest_expense.id = transactions[1].id

\* the positions of the slice whose transaction is of category c
CategoryPositions(c) == {i \in DOMAIN transactions : transactions[i].category_id = c}

\* the position at which category c is first met
FirstOf(c) == CHOOSE i \in CategoryPositions(c) : \A j \in CategoryPositions(c) : i <= j

\* C25: most_frequent_category is the category id with the most transactions,
\* income and expense counted together, with that count; among categories of
\* equal count it is the one whose first transaction comes earliest in the slice.
C25_MostFrequentCategory ==
    (call.op = "_calculate_financial_summary" /\ transactions # << >>) =>
        /\ ~Raised(result)
        /\ LET m == result.val.most_frequent_category
               cats == {transactions[i].category_id : i \in DOMAIN transactions}
           IN  /\ DOMAIN m = {"category_id", "count"}
               /\ m.category_id \in cats
               /\ m.count = Cardinality(CategoryPositions(m.category_id))
               /\ \A c \in cats :
                      /\ Cardinality(CategoryPositions(c)) <= m.count
                      /\ (c # m.category_id
                          /\ Cardinality(CategoryPositions(c)) = m.count) =>
                             FirstOf(m.category_id) < FirstOf(c)

\* income and food_dining with two transactions each: income, the category
\* met first, is reported
C25_Witness ==
    /\ call.op = "_calculate_financial_summary"
    /\ Len(transactions) = 4
    /\ transactions[1].category_id = "income"
    /\ transactions[1].type = "income"
    /\ transactions[2].category_id = "food_dining"
    /\ transactions[3].category_id = "food_dining"
    /\ transactions[4].category_id = "income"
    /\ result.val.most_frequent_category = [category_id |-> "income", count |-> 2]

\* the position at which subcategory sc of category c is first met
FirstOfSub(c, sc) ==
    LET S == {i \in CategoryPositions(c) : transactions[i].subcategory_id = sc}
    IN  CHOOSE i \in S : \A j \in S : i <= j

\* C26: _calculate_category_breakdown returns the categories by total_amount,
\* largest first, and inside each category its subcategories by total_amount,
\* largest first; entries of equal total keep the order in which their category
\* (or subcategory) was first met in the slice.
C26_BreakdownOrder ==
    call.op = "_calculate_category_breakdown" =>
        /\ ~Raised(result)
        /\ LET cb == result.val
           IN  \A k \in DOMAIN cb :
                   /\ \A k2 \in DOMAIN cb :
                          k < k2 =>
                              /\ cb[k].total_amount >= cb[k2].total_amount
                              /\ cb[k].total_amount = cb[k2].total_amount =>
                                     FirstOf(cb[k].category_id)
                                         < FirstOf(cb[k2].category_id)
                   /\ LET sub == cb[k].subcategories
                      IN  \A m, m2 \in DOMAIN sub :
                              m < m2 =>
                                  /\ sub[m].total_amount >= sub[m2].total_amount
                                  /\ sub[m].total_amount = sub[m2].total_amount =>
                                         FirstOfSub(cb[k].category_id,
                                                    sub[m].subcategory_id)
                                             < FirstOfSub(cb[k].category_id,
                                                          sub[m2].subcategory_id)

\* two categories of equal total: the one met first, income, comes first
C26_Witness ==
    /\ call.op = "_calculate_category_breakdown"
    /\ Len(transactions) = 2
    /\ transactions[1].category_id = "income"
    /\ transactions[2].category_id = "food_dining"
    /\ Len(result.val) = 2
    /\ result.val[1].total_amount = result.val[2].total_amount
    /\ result.val[1].category_id = "income"

\* C27: once delete_transaction has succeeded for a transaction its is_deleted
\* flag is true in every later state, also when an update_transaction of the
\* same transaction read the document before the delete wrote and writes it
\* back afterwards: no step takes is_deleted from true to false.
C27_DeletedStaysDeleted ==
    [][\A i \in DOMAIN db : db[i].is_deleted => db'[i].is_deleted]_vars

\* the fields an UpdateTransactionRequest can give
RequestFields ==
    {"type", "amount", "transaction_date", "category_id", "subcategory_id",
     "description", "tags"}

C29_SubscriptionsMatchClients ==
    \A s \in DOMAIN subscriptions, w \in WebSockets :
        w \in subscriptions[s] <=> (w \in DOMAIN clients /\ s \in clients[w])

\* C30: a price_update for a symbol is sent only to clients subscribed to it
\* then: a client that was sent the 'unsubscribed' confirmation for the symbol
\* and has not subscribed to it again is sent no price_update for it, also when
\* the unsubscribe is handled while a broadcast for the symbol is in progress.
C30_NoUpdateAfterUnsubscribe ==
    [][(broadcast'.pc = "sending" /\ broadcast' # broadcast /\ broadcast'.ok) =>
           <<broadcast'.to, broadcast'.symbol>> \notin unsubscribed]_vars

====
